---- MODULE Spec2Model ----
(***************************************************************************)
(* Model of hyper's HttpConnector (src/client/connect.rs, src/client/dns.rs)*)
(* One HttpConnector, one HttpConnecting future obtained from call(uri),    *)
(* the DNS work item handed to the executor, the TCP connect future held in *)
(* ConnectingTcp.current, and the caller that polls the future.             *)
(***************************************************************************)
EXTENDS Integers, Sequences, FiniteSets, TLC

\* ---------------------------------------------------------------- bounds
MaxAddrs == 2      \* longest address list a resolution returns
MaxPolls == 4      \* number of times the caller polls the future

\* ---------------------------------------------------------------- values
NoPort == 0 - 1
DefaultHttpPort == 80
DefaultHttpsPort == 443
Ports == {NoPort, 8080}

Schemes == {"none", "http", "https", "ftp"}
V4Literals == {"127.0.0.1"}
V6Literals == {"::1"}
Hosts == {"none", "example.domain"} \cup V4Literals \cup V6Literals
Uris == [scheme : Schemes, host : Hosts, port : Ports]

Families == {"v4", "v6"}
LocalAddrs == {"none"} \cup Families
Outcomes == {"setup_err", "conn_err", "ok"}
IpName == <<"r1", "r2", "r3", "r4", "r5", "r6">>

NoErr == [kind |-> "none", why |-> "none", addr |-> 0]
InvalidInput(why) == [kind |-> "InvalidInput", why |-> why, addr |-> 0]
IoErr(why, i) == [kind |-> "Io", why |-> why, addr |-> i]

\* Poll<TcpStream, io::Error>, or the panic that unwinds out of poll
NotReady == [tag |-> "NotReady", sock |-> 0, keepalive |-> FALSE, err |-> NoErr, msg |-> ""]
Ready(i) == [tag |-> "Ready", sock |-> i, keepalive |-> FALSE, err |-> NoErr, msg |-> ""]
Err(e) == [tag |-> "Err", sock |-> 0, keepalive |-> FALSE, err |-> e, msg |-> ""]
Panic(m) == [tag |-> "Panic", sock |-> 0, keepalive |-> FALSE, err |-> NoErr, msg |-> m]
NoResult == [tag |-> "None", sock |-> 0, keepalive |-> FALSE, err |-> NoErr, msg |-> ""]

NoCurrent == [some |-> FALSE, id |-> 0, addr |-> 0, st |-> "none"]
Stream(id, i) == [some |-> TRUE, id |-> id, addr |-> i, st |-> "pending"]

NoWork == [st |-> "none", host |-> "", port |-> 0]

VARIABLES
    connector,          \* HttpConnector: enforce_http, keep_alive_timeout, local_address
    uri,                \* the Uri given to call
    state,              \* HttpConnecting.state
    keep_alive_timeout, \* HttpConnecting.keep_alive_timeout
    work,               \* dns::Work spawned on the executor and its SpawnHandle
    resolved,           \* the IpAddrs the work produced
    outcome,            \* what the network does with each address
    live,               \* ids of the TCP connect futures (sockets) the operation holds
    next_id,            \* id of the next TCP connect future
    attempts,           \* every tcp_connect call so far, in order
    tried,              \* the tcp_connect calls of the latest poll
    submitted,          \* executor.execute calls so far
    polls,              \* polls so far
    result,             \* what the latest poll returned
    first_result,       \* what the first completing poll returned
    not_ready,          \* polls that returned NotReady
    ops                 \* the futures of concurrent calls on the one connector

vars == <<connector, uri, state, keep_alive_timeout, work, resolved, outcome,
          live, next_id, attempts, tried, submitted, polls, result,
          first_result, not_ready, ops>>

\* ---------------------------------------------------------------- dns.rs
SocketAddr(fam, ip, port) == [fam |-> fam, ip |-> ip, port |-> port]

\* try_parse without the Ipv6Addr parse
try_parse_v4_only(host, port) ==
    IF host \in V4Literals THEN [some |-> TRUE, addrs |-> <<SocketAddr("v4", host, port)>>]
    ELSE [some |-> FALSE, addrs |-> <<>>]

\* IpAddrs::try_parse: Some(one address) for literal IPv4, then literal IPv6
try_parse(host, port) ==
    IF host \in V4Literals THEN [some |-> TRUE, addrs |-> <<SocketAddr("v4", host, port)>>]
    ELSE IF host \in V6Literals THEN [some |-> TRUE, addrs |-> <<SocketAddr("v6", host, port)>>]
    ELSE [some |-> FALSE, addrs |-> <<>>]

\* ---------------------------------------------------------------- State
NoState == [tag |-> "None", host |-> "", port |-> 0, local_address |-> "none",
            addrs |-> <<>>, current |-> NoCurrent, error |-> NoErr]
Lazy(host, port, local) == [NoState EXCEPT !.tag = "Lazy", !.host = host,
                            !.port = port, !.local_address = local]
Resolving(local) == [NoState EXCEPT !.tag = "Resolving", !.local_address = local]
Connecting(local, addrs) == [NoState EXCEPT !.tag = "Connecting",
                             !.local_address = local, !.addrs = addrs]
Error(e) == [NoState EXCEPT !.tag = "Error", !.error = e]

\* invalid_url with io::ErrorKind::Other
invalid_url_other_kind(err) ==
    [state |-> Error([kind |-> "Other", why |-> err, addr |-> 0]),
     keep_alive_timeout |-> FALSE]

\* invalid_url
invalid_url(err) == [state |-> Error(InvalidInput(err)), keep_alive_timeout |-> FALSE]

\* lazy_connecting without the https default
lazy_connecting_port_80(c, u) ==
    [state |-> Lazy(u.host, IF u.port # NoPort THEN u.port ELSE DefaultHttpPort,
                    c.local_address),
     keep_alive_timeout |-> c.keep_alive_timeout]

\* the HttpConnecting that call builds for a Uri it accepts
lazy_connecting(c, u) ==
    LET port == IF u.port # NoPort THEN u.port
                ELSE IF u.scheme = "https" THEN DefaultHttpsPort
                ELSE DefaultHttpPort
    IN [state |-> Lazy(u.host, port, c.local_address),
        keep_alive_timeout |-> c.keep_alive_timeout]

\* call that looks for a missing scheme before it enforces http
call_scheme_first(c, u) ==
    IF u.scheme = "none" THEN invalid_url("MissingScheme")
    ELSE IF c.enforce_http /\ u.scheme # "http" THEN invalid_url("NotHttp")
    ELSE IF u.host = "none" THEN invalid_url("MissingAuthority")
    ELSE lazy_connecting(c, u)

\* call that looks for the host before the scheme
call_host_first(c, u) ==
    IF u.host = "none" THEN invalid_url("MissingAuthority")
    ELSE IF c.enforce_http /\ u.scheme # "http" THEN invalid_url("NotHttp")
    ELSE IF ~c.enforce_http /\ u.scheme = "none" THEN invalid_url("MissingScheme")
    ELSE lazy_connecting(c, u)

\* call whose enforcement lets https through
call_https_allowed(c, u) ==
    IF c.enforce_http /\ u.scheme \notin {"http", "https"} THEN invalid_url("NotHttp")
    ELSE IF ~c.enforce_http /\ u.scheme = "none" THEN invalid_url("MissingScheme")
    ELSE IF u.host = "none" THEN invalid_url("MissingAuthority")
    ELSE lazy_connecting(c, u)

\* HttpConnector::call
call(c, u) ==
    IF c.enforce_http /\ u.scheme # "http" THEN invalid_url("NotHttp")
    ELSE IF ~c.enforce_http /\ u.scheme = "none" THEN invalid_url("MissingScheme")
    ELSE IF u.host = "none" THEN invalid_url("MissingAuthority")
    ELSE lazy_connecting(c, u)

\* ---------------------------------------------------------------- ConnectingTcp
\* the family test with the comparison the wrong way round
Skipped_same_family(addr, local) == local # "none" /\ addr.fam = local

\* the family test of the two candidate loops (connect.rs 314-318, 339-343)
Skipped(addr, local) == local # "none" /\ addr.fam # local

\* tcp_connect: open a socket of the address's family, bind the local
\* address if there is one, start the non-blocking connect
tcp_connect(addr, i, local, out) ==
    IF out = "setup_err" \/ (local # "none" /\ addr.fam # local)
    THEN [ok |-> FALSE, err |-> IoErr("setup", i)]
    ELSE [ok |-> TRUE, err |-> NoErr]

\* `for addr in self.addrs.clone()`: from candidate i on, until a
\* tcp_connect succeeds (break) or the list ends
RECURSIVE ForAddrs(_, _, _, _, _, _)
ForAddrs(addrs, local, outc, i, err, seen) ==
    IF i > Len(addrs) THEN [err |-> err, hit |-> 0, tried |-> seen]
    ELSE IF Skipped(addrs[i], local) THEN ForAddrs(addrs, local, outc, i + 1, err, seen)
    ELSE LET r == tcp_connect(addrs[i], i, local, outc[i])
         IN IF r.ok THEN [err |-> err, hit |-> i, tried |-> Append(seen, i)]
            ELSE ForAddrs(addrs, local, outc, i + 1, r.err, Append(seen, i))

\* the clone of self.addrs iterates from the first address again
TryAddrs(c, outc, err) == ForAddrs(c.addrs, c.local_address, outc, 1, err, <<>>)

\* the failed future is kept when current is replaced
Dropped_none(cur) == {}

\* `*current = stream`: the failed future that current held is dropped
Dropped(cur) == {cur.id}

\* the one element of a singleton: the value computed once, then bound
Only(S) == CHOOSE x \in S : TRUE

\* ConnectingTcp::poll on the Connecting state c; nid is the id the next
\* TCP connect future gets
ConnectingTcpPoll(c, outc, nid) ==
    IF c.current.some THEN
        CASE c.current.st = "pending" ->
                [state |-> c, res |-> NotReady, tried |-> <<>>, made |-> {}, dropped |-> {}]
          [] c.current.st = "ok" ->
                [state |-> [c EXCEPT !.current.st = "taken"],
                 res |-> Ready(c.current.addr), tried |-> <<>>, made |-> {},
                 dropped |-> {c.current.id}]
          [] c.current.st = "failed" ->
                Only({[state |-> IF l.hit # 0
                                 THEN [c EXCEPT !.current = Stream(nid, l.hit)]
                                 ELSE [c EXCEPT !.current.st = "taken"],
                       res |-> Err(l.err), tried |-> l.tried,
                       made |-> IF l.hit # 0 THEN {nid} ELSE {},
                       dropped |-> IF l.hit # 0 THEN Dropped(c.current) ELSE {}]
                      : l \in {TryAddrs(c, outc, IoErr("connect", c.current.addr))}})
          [] OTHER ->
                [state |-> c, res |-> Panic("polled a finished connect future"),
                 tried |-> <<>>, made |-> {}, dropped |-> {}]
    ELSE
        Only({[state |-> IF l.hit # 0 THEN [c EXCEPT !.current = Stream(nid, l.hit)] ELSE c,
               res |-> IF l.err = NoErr THEN Panic("missing connect error") ELSE Err(l.err),
               tried |-> l.tried,
               made |-> IF l.hit # 0 THEN {nid} ELSE {},
               dropped |-> {}]
              : l \in {TryAddrs(c, outc, NoErr)}})

\* ---------------------------------------------------------------- HttpConnecting
\* the Connecting arm that returns the socket without set_keepalive
PollConnecting_no_keepalive(c, kat, ka_ok, outc, nid) == ConnectingTcpPoll(c, outc, nid)

\* the State::Connecting arm of HttpConnecting::poll
PollConnecting(c, kat, ka_ok, outc, nid) ==
    Only({IF r.res.tag = "Ready" /\ kat
          THEN IF ka_ok THEN [r EXCEPT !.res.keepalive = TRUE]
               ELSE [r EXCEPT !.res = Err(IoErr("keepalive", r.res.sock))]
          ELSE r
          : r \in {ConnectingTcpPoll(c, outc, nid)}})

\* what one poll leaves behind: the state, the work, the network, the result
Out(st, w, outc, r, sub) ==
    [state |-> st, work |-> w, outcome |-> outc, res |-> r.res, tried |-> r.tried,
     made |-> r.made, dropped |-> r.dropped, submitted |-> sub]
Plain(res) == [res |-> res, tried |-> <<>>, made |-> {}, dropped |-> {}]

\* the Resolving arm that takes a failed resolution for one still running
PollResolving_err_pending(st, kat, w, addrs, ka_ok, outc, nid, sub) ==
    CASE w.st \in {"queued", "err"} -> Out(st, w, outc, Plain(NotReady), sub)
      [] w.st = "ok" ->
            Only({Out(r.state, [w EXCEPT !.st = "taken"], outc, r, sub)
                  : r \in {PollConnecting(Connecting(st.local_address, addrs),
                                          kat, ka_ok, outc, nid)}})
      [] OTHER ->
            Out(st, w, outc, Plain(Panic("future was canceled before completion")), sub)

\* the State::Resolving arm, then the loop
PollResolving(st, kat, w, addrs, ka_ok, outc, nid, sub) ==
    CASE w.st = "queued" -> Out(st, w, outc, Plain(NotReady), sub)
      [] w.st = "err" ->
            Out(st, [w EXCEPT !.st = "taken"], outc, Plain(Err(IoErr("resolve", 0))), sub)
      [] w.st = "ok" ->
            Only({Out(r.state, [w EXCEPT !.st = "taken"], outc, r, sub)
                  : r \in {PollConnecting(Connecting(st.local_address, addrs),
                                          kat, ka_ok, outc, nid)}})
      [] OTHER ->
            Out(st, w, outc, Plain(Panic("future was canceled before completion")), sub)

\* HttpConnecting::poll.  accept: the executor takes the task; lit_out: what
\* the network does with a literal address; ka_ok: set_keepalive succeeds
HttpConnectingPoll(st, kat, w, addrs, outc, nid, accept, lit_out, ka_ok) ==
    CASE st.tag = "Lazy" ->
            LET p == try_parse(st.host, st.port)
            IN IF p.some
               THEN Only({Out(r.state, w, <<lit_out>>, r, 0)
                          : r \in {PollConnecting(Connecting(st.local_address, p.addrs),
                                                  kat, ka_ok, <<lit_out>>, nid)}})
               ELSE LET job == [st |-> "queued", host |-> st.host, port |-> st.port]
                    IN IF accept
                       THEN PollResolving(Resolving(st.local_address), kat, job, addrs,
                                          ka_ok, outc, nid, 1)
                       ELSE Out([st EXCEPT !.host = ""], w, outc,
                                Plain(Panic("failed to spawn future")), 1)
      [] st.tag = "Resolving" -> PollResolving(st, kat, w, addrs, ka_ok, outc, nid, 0)
      [] st.tag = "Connecting" ->
            Only({Out(r.state, w, outc, r, 0)
                  : r \in {PollConnecting(st, kat, ka_ok, outc, nid)}})
      [] OTHER ->
            IF st.error = NoErr
            THEN Out(st, w, outc, Plain(Panic("polled more than once")), 0)
            ELSE Out([st EXCEPT !.error = NoErr], w, outc, Plain(Err(st.error)), 0)

\* ---------------------------------------------------------------- concurrent calls
\* the HttpConnecting futures that concurrent calls of one connector return
OpIds == {1, 2}
NoOp == [uri |-> [scheme |-> "none", host |-> "none", port |-> NoPort],
         state |-> NoState, keep_alive_timeout |-> FALSE, work |-> NoWork,
         resolved |-> <<>>, outcome |-> <<>>, next_id |-> 1, attempts |-> <<>>,
         result |-> NoResult, first_result |-> NoResult]

\* ---------------------------------------------------------------- Init
Init ==
    /\ connector = [enforce_http |-> TRUE, keep_alive_timeout |-> FALSE,
                    local_address |-> "none"]
    /\ uri = [scheme |-> "none", host |-> "none", port |-> NoPort]
    /\ state = NoState
    /\ keep_alive_timeout = FALSE
    /\ work = NoWork
    /\ resolved = <<>>
    /\ outcome = <<>>
    /\ live = {}
    /\ next_id = 1
    /\ attempts = <<>>
    /\ tried = <<>>
    /\ submitted = 0
    /\ polls = 0
    /\ result = NoResult
    /\ first_result = NoResult
    /\ not_ready = 0
    /\ ops = [i \in OpIds |-> NoOp]

\* HttpConnector::enforce_http
EnforceHttp(b) ==
    /\ state.tag = "None"
    /\ connector' = [connector EXCEPT !.enforce_http = b]
    /\ UNCHANGED <<uri, state, keep_alive_timeout, work, resolved, outcome, live,
                   next_id, attempts, tried, submitted, polls, result,
                   first_result, not_ready, ops>>

Call(u) ==
    /\ state.tag = "None"
    /\ uri' = u
    /\ state' = call(connector, u).state
    /\ keep_alive_timeout' = call(connector, u).keep_alive_timeout
    /\ UNCHANGED <<connector, work, resolved, outcome, live, next_id, attempts,
                   tried, submitted, polls, result, first_result, not_ready, ops>>

\* HttpConnector::set_keepalive
SetKeepalive(d) ==
    /\ state.tag = "None"
    /\ connector' = [connector EXCEPT !.keep_alive_timeout = d]
    /\ UNCHANGED <<uri, state, keep_alive_timeout, work, resolved, outcome, live,
                   next_id, attempts, tried, submitted, polls, result,
                   first_result, not_ready, ops>>

\* HttpConnector::set_local_address
SetLocalAddress(a) ==
    /\ state.tag = "None"
    /\ connector' = [connector EXCEPT !.local_address = a]
    /\ UNCHANGED <<uri, state, keep_alive_timeout, work, resolved, outcome, live,
                   next_id, attempts, tried, submitted, polls, result,
                   first_result, not_ready, ops>>

Completed == first_result.tag # "None"

\* one call of HttpConnecting::poll by the task that owns the future
DoPoll(accept, lit_out, ka_ok) ==
    \E r \in {HttpConnectingPoll(state, keep_alive_timeout, work, resolved, outcome,
                                 next_id, accept, lit_out, ka_ok)} :
       /\ state' = r.state
       /\ work' = r.work
       /\ outcome' = r.outcome
       /\ live' = (live \ r.dropped) \cup r.made
       /\ next_id' = next_id + Cardinality(r.made)
       /\ attempts' = attempts \o r.tried
       /\ tried' = r.tried
       /\ submitted' = submitted + r.submitted
       /\ polls' = polls + 1
       /\ result' = r.res
       /\ first_result' = IF ~Completed /\ r.res.tag # "NotReady" THEN r.res
                          ELSE first_result
       /\ not_ready' = not_ready + (IF r.res.tag = "NotReady" THEN 1 ELSE 0)
       /\ UNCHANGED <<connector, uri, keep_alive_timeout, resolved, ops>>

\* the choices of the environment that the poll of this state can observe
Accepts == IF state.tag = "Lazy" /\ ~try_parse(state.host, state.port).some
           THEN BOOLEAN ELSE {TRUE}
LitOuts == IF state.tag = "Lazy" /\ try_parse(state.host, state.port).some
           THEN Outcomes ELSE {"ok"}
KaOks == IF keep_alive_timeout /\ state.tag = "Connecting" /\ state.current.st = "ok"
         THEN BOOLEAN ELSE {TRUE}

\* the future is polled until it completes
Poll ==
    /\ state.tag # "None"
    /\ ~Completed
    /\ polls < MaxPolls
    /\ \E accept \in Accepts, lit_out \in LitOuts, ka_ok \in KaOks :
          DoPoll(accept, lit_out, ka_ok)

\* the future is polled again after it returned an error, a socket or panicked
Repoll ==
    /\ Completed
    /\ polls < MaxPolls
    /\ \E accept \in Accepts, lit_out \in LitOuts, ka_ok \in KaOks :
          DoPoll(accept, lit_out, ka_ok)

\* dns::Work::poll on a pool thread: to_socket_addrs returns the addresses
WorkOk(fams, outs) ==
    /\ work.st = "queued"
    /\ work' = [work EXCEPT !.st = "ok"]
    /\ resolved' = [i \in DOMAIN fams |-> SocketAddr(fams[i], IpName[i], work.port)]
    /\ outcome' = outs
    /\ UNCHANGED <<connector, uri, state, keep_alive_timeout, live, next_id,
                   attempts, tried, submitted, polls, result, first_result, not_ready, ops>>

\* dns::Work::poll on a pool thread: to_socket_addrs fails
WorkErr ==
    /\ work.st = "queued"
    /\ work' = [work EXCEPT !.st = "err"]
    /\ UNCHANGED <<connector, uri, state, keep_alive_timeout, resolved, outcome,
                   live, next_id, attempts, tried, submitted, polls, result,
                   first_result, not_ready, ops>>

\* the reactor learns the outcome of the TCP connect in ConnectingTcp.current
ConnectDone ==
    /\ state.tag = "Connecting"
    /\ state.current.some
    /\ state.current.st = "pending"
    /\ state' = [state EXCEPT !.current.st =
                    IF outcome[state.current.addr] = "ok" THEN "ok" ELSE "failed"]
    /\ UNCHANGED <<connector, uri, keep_alive_timeout, work, resolved, outcome,
                   live, next_id, attempts, tried, submitted, polls, result,
                   first_result, not_ready, ops>>

Next ==
    \/ \E b \in BOOLEAN : EnforceHttp(b)
    \/ \E d \in BOOLEAN : SetKeepalive(d)
    \/ \E a \in LocalAddrs : SetLocalAddress(a)
    \/ \E u \in Uris : Call(u)
    \/ Poll
    \/ Repoll
    \/ \E n \in 0..MaxAddrs : \E fams \in [1..n -> Families], outs \in [1..n -> Outcomes] :
          WorkOk(fams, outs)
    \/ WorkErr
    \/ ConnectDone

Spec == Init /\ [][Next]_vars

\* ---------------------------------------------------------------- claims
Called == state.tag # "None"
Polled == Called /\ polls >= 1
Local == connector.local_address
Cands == state.addrs
Eligible(i) == Local = "none" \/ Cands[i].fam = Local
EligibleIdx == {i \in 1..Len(Cands) : Eligible(i)}
NoIo == submitted = 0 /\ attempts = <<>> /\ live = {} /\ next_id = 1 /\ work = NoWork
\* the error the connect to candidate i ends with
CandErr(i) == IF outcome[i] = "setup_err" THEN IoErr("setup", i) ELSE IoErr("connect", i)
Last(S) == CHOOSE i \in S : \A j \in S : j <= i
\* the candidate C of the fallback: eligible, connects, every eligible one before it fails
Winner(c) == /\ c \in EligibleIdx
             /\ outcome[c] = "ok"
             /\ \A j \in EligibleIdx : j < c => outcome[j] # "ok"

\* C1: when every eligible candidate before C fails and C connects, the
\* completed operation returned the socket connected to C (or failed on
\* set_keepalive) and no candidate after C was tried
C1_FirstSuccessWins ==
    (Completed /\ state.tag = "Connecting") =>
        \A c \in 1..Len(Cands) : Winner(c) =>
            /\ \/ first_result.tag = "Ready" /\ first_result.sock = c
               \/ first_result.err = IoErr("keepalive", c)
            /\ \A k \in 1..Len(attempts) : attempts[k] <= c

\* C2: when every eligible candidate fails, the completed operation returned
\* the error of the last eligible candidate
C2_LastErrorReturned ==
    (/\ Completed
     /\ state.tag = "Connecting"
     /\ EligibleIdx # {}
     /\ \A i \in EligibleIdx : outcome[i] # "ok")
        => first_result = Err(CandErr(Last(EligibleIdx)))

\* C3: the k-th tcp_connect call of the operation is for the k-th eligible
\* candidate, so the calls are in list order and no candidate is tried twice
C3_InOrderOnce ==
    /\ Len(attempts) <= Cardinality(EligibleIdx)
    /\ \A k \in 1..Len(attempts) :
          /\ attempts[k] \in EligibleIdx
          /\ Cardinality({i \in EligibleIdx : i < attempts[k]}) = k - 1

\* C4: with a local address no tcp_connect call is made for a candidate of
\* the other family; without one every poll tries the candidates from the
\* first one on without leaving one out
C4_FamilyFilter ==
    /\ \A k \in 1..Len(attempts) :
          Local # "none" => Cands[attempts[k]].fam = Local
    /\ Local = "none" => \A k \in 1..Len(tried) : tried[k] = k
C4_Witness ==
    /\ Local = "v4"
    /\ Len(Cands) = 2
    /\ Cands[1].fam = "v6"
    /\ Cands[2].fam = "v4"
    /\ attempts = <<2>>
    /\ Completed

\* C5: the operation holds at most one TCP connect future, the one in
\* ConnectingTcp.current
C5_OneInFlight ==
    /\ Cardinality(live) <= 1
    /\ live # {} => (state.tag = "Connecting" /\ state.current.some
                     /\ live = {state.current.id})
C5_Witness ==
    /\ next_id >= 3
    /\ Cardinality(live) = 1
    /\ state.current.st = "pending"

\* the Uri fails the validation of call
InvalidUri ==
    \/ connector.enforce_http /\ uri.scheme # "http"
    \/ uri.scheme = "none"
    \/ uri.host = "none"

\* C6: for a Uri that fails validation the first poll returns an
\* InvalidInput error, no poll returns NotReady, nothing is submitted to the
\* executor and no socket is opened
C6_InvalidUriFailsAtOnce ==
    (Polled /\ InvalidUri) =>
        /\ first_result.tag = "Err"
        /\ first_result.err.kind = "InvalidInput"
        /\ not_ready = 0
        /\ NoIo
C6_Witness ==
    /\ Polled
    /\ InvalidUri
    /\ result.tag = "Err"
    /\ result.err.kind = "InvalidInput"

\* C7 as stated: a Uri without scheme fails with MissingScheme under every
\* configuration, without resolution or socket I/O
C7_MissingSchemeAlways ==
    (Polled /\ uri.scheme = "none") =>
        /\ first_result = Err(InvalidInput("MissingScheme"))
        /\ NoIo

\* C7 amended: a Uri without scheme fails with MissingScheme when enforce_http
\* is off and with NotHttp when it is on, without resolution or socket I/O
C7_MissingSchemeUnlessEnforced ==
    (Polled /\ uri.scheme = "none") =>
        /\ first_result = Err(InvalidInput(IF connector.enforce_http THEN "NotHttp"
                                           ELSE "MissingScheme"))
        /\ NoIo
C7_Witness ==
    /\ Polled
    /\ uri.scheme = "none"
    /\ ~connector.enforce_http
    /\ first_result = Err(InvalidInput("MissingScheme"))

\* C8 as stated: a Uri without host fails with MissingAuthority under every
\* configuration
C8_MissingAuthorityAlways ==
    (Polled /\ uri.host = "none") =>
        first_result = Err(InvalidInput("MissingAuthority"))

\* the Uri passes the scheme checks of call
SchemeAccepted ==
    IF connector.enforce_http THEN uri.scheme = "http" ELSE uri.scheme # "none"

\* C8 amended: a Uri without host whose scheme is accepted fails with
\* MissingAuthority; one whose scheme is rejected fails with the scheme's
\* error (NotHttp, MissingScheme)
C8_MissingAuthorityAfterScheme ==
    (Polled /\ uri.host = "none") =>
        /\ SchemeAccepted => first_result = Err(InvalidInput("MissingAuthority"))
        /\ ~SchemeAccepted => first_result \in {Err(InvalidInput("NotHttp")),
                                                Err(InvalidInput("MissingScheme"))}
C8_Witness ==
    /\ Polled
    /\ uri.host = "none"
    /\ uri.scheme = "http"
    /\ first_result = Err(InvalidInput("MissingAuthority"))

\* C9: with enforce_http a Uri whose scheme is not http fails with NotHttp
\* without resolution or socket I/O; without enforce_http a Uri with another
\* scheme is not rejected for its scheme
C9_NotHttp ==
    /\ (Polled /\ connector.enforce_http /\ uri.scheme # "http") =>
          (first_result = Err(InvalidInput("NotHttp")) /\ NoIo)
    /\ (Polled /\ ~connector.enforce_http /\ uri.scheme \notin {"none", "http"}) =>
          /\ first_result.err.why \notin {"NotHttp", "MissingScheme"}
          /\ uri.host # "none" => first_result.err.kind # "InvalidInput"
C9_Witness ==
    /\ Polled
    /\ connector.enforce_http
    /\ uri.scheme = "https"
    /\ uri.host = "example.domain"
    /\ first_result = Err(InvalidInput("NotHttp"))

\* the host of the Uri is an IPv4 or IPv6 literal
LiteralHost == uri.host \in V4Literals \cup V6Literals

\* C10: for a literal IP host nothing is submitted to the executor and the
\* first poll takes the state from Lazy to Connecting, never to Resolving
C10_LiteralSkipsPool ==
    (Called /\ LiteralHost) =>
        /\ submitted = 0
        /\ work = NoWork
        /\ state.tag # "Resolving"
        /\ (Polled /\ ~InvalidUri) => state.tag = "Connecting"
C10_Witness ==
    /\ Polled
    /\ uri.host \in V6Literals
    /\ state.tag = "Connecting"
    /\ submitted = 0

\* the port call gives a Uri it accepts
ExpectedPort ==
    IF uri.port # NoPort THEN uri.port
    ELSE IF uri.scheme = "https" THEN DefaultHttpsPort ELSE DefaultHttpPort

\* C11: for a Uri that passes validation the port of the operation (in Lazy,
\* in the dns::Work, in every candidate address) is the explicit port, else
\* 443 for https, else 80; https without port is NotHttp under enforce_http
C11_PortDefault ==
    /\ (Called /\ ~InvalidUri) =>
          /\ state.tag = "Lazy" => state.port = ExpectedPort
          /\ work.st # "none" => work.port = ExpectedPort
          /\ \A i \in 1..Len(state.addrs) : state.addrs[i].port = ExpectedPort
    /\ (Polled /\ connector.enforce_http /\ uri.scheme = "https") =>
          first_result = Err(InvalidInput("NotHttp"))
C11_Witness ==
    /\ ~connector.enforce_http
    /\ uri.scheme = "https"
    /\ uri.port = NoPort
    /\ state.tag = "Connecting"
    /\ Len(state.addrs) >= 1
    /\ state.addrs[1].port = 443

\* C13: once a poll has returned an error, a further poll returns neither a
\* socket nor NotReady and makes no executor submission and no tcp_connect call
C13_FailedStaysFailed ==
    [][(first_result.tag = "Err" /\ polls' = polls + 1) =>
          /\ result'.tag \in {"Err", "Panic"}
          /\ submitted' = submitted
          /\ attempts' = attempts
          /\ next_id' = next_id]_vars

\* the resolution of this operation has failed
ResolveFailed == work.st = "err" \/ (state.tag = "Resolving" /\ work.st = "taken")

\* C14: when the resolution fails the poll that sees it returns the
\* resolution's error, and no tcp_connect call is ever made
C14_ResolveErrorFails ==
    /\ [](ResolveFailed => (attempts = <<>> /\ live = {} /\ next_id = 1
                            /\ state.tag = "Resolving"))
    /\ [][(work.st = "err" /\ polls' = polls + 1) =>
             (result' = Err(IoErr("resolve", 0)) /\ work'.st = "taken")]_vars
C14_Witness ==
    /\ state.tag = "Resolving"
    /\ work.st = "taken"
    /\ result = Err(IoErr("resolve", 0))
    /\ first_result = Err(IoErr("resolve", 0))
    /\ attempts = <<>>

\* C15: when the executor rejects the resolution task the poll returns an
\* error (it does not panic and does not stay pending)
C15_RejectedSpawnIsError ==
    (state.tag = "Lazy" /\ submitted >= 1) => result.tag = "Err"

\* C16: with keep_alive_timeout a returned socket has keep-alive set and a
\* failing set_keepalive fails the operation with its error; without
\* keep_alive_timeout keep-alive is never set
C16_KeepAlive ==
    /\ result.tag = "Ready" => result.keepalive = connector.keep_alive_timeout
    /\ result.err.why = "keepalive" =>
          (connector.keep_alive_timeout /\ result.tag = "Err" /\ result.sock = 0)
    /\ first_result.tag = "Ready" => first_result.keepalive = connector.keep_alive_timeout
C16_Witness ==
    /\ connector.keep_alive_timeout
    /\ result.tag = "Ready"
    /\ result.keepalive
    /\ result.sock = 2

\* C17: when no candidate is eligible (none resolved, or all of the other
\* family) the poll returns an error value
C17_NoAddressesIsError ==
    (Polled /\ state.tag = "Connecting" /\ EligibleIdx = {}) => result.tag = "Err"

\* the state of the operation as the caller sees it
OpState ==
    CASE first_result.tag = "Ready" -> "Done"
      [] first_result.tag = "Err" \/ state.tag = "Error" -> "Failed"
      [] state.tag = "Lazy" -> "Validating"
      [] state.tag \in {"Resolving", "Connecting"} -> state.tag
      [] OTHER -> "New"
Transitions ==
    {<<"New", "Validating">>, <<"New", "Failed">>,
     <<"Validating", "Connecting">>, <<"Validating", "Resolving">>,
     <<"Validating", "Failed">>, <<"Resolving", "Connecting">>,
     <<"Resolving", "Failed">>, <<"Connecting", "Done">>, <<"Connecting", "Failed">>}

\* C18: the operation only makes the listed transitions, and once it has
\* returned a socket or an error no step changes its state, submits a task
\* or makes a tcp_connect call
C18_TerminalStates ==
    [][/\ OpState' # OpState => <<OpState, OpState'>> \in Transitions
       /\ OpState \in {"Done", "Failed"} =>
             /\ OpState' = OpState
             /\ submitted' = submitted
             /\ attempts' = attempts
             /\ next_id' = next_id]_vars

\* C19: the setup error of a candidate is the returned error only if no
\* later candidate was attempted
C19_SetupErrorAdvances ==
    (Completed /\ state.tag = "Connecting") =>
        \A i \in EligibleIdx :
            first_result = Err(IoErr("setup", i)) =>
                \A k \in 1..Len(attempts) : attempts[k] <= i

\* the pool thread runs the dns::Work to its end
WorkDone ==
    \/ WorkErr
    \/ \E n \in 0..MaxAddrs : \E fams \in [1..n -> Families], outs \in [1..n -> Outcomes] :
          WorkOk(fams, outs)

\* the caller polls the future until it completes, the pool runs every task
\* it accepted, the reactor completes every connect
FairSpec ==
    /\ Spec
    /\ WF_vars(Poll)
    /\ WF_vars(WorkDone)
    /\ WF_vars(ConnectDone)

\* C20: for an operation that was started some poll eventually returns a
\* socket or an error (as long as the caller has polls left)
C20_EventuallyReturns ==
    Called ~> (result.tag \in {"Ready", "Err"} \/ polls = MaxPolls)

\* ---------------------------------------------------------------- concurrent operations
single == <<uri, state, keep_alive_timeout, work, resolved, outcome, live, next_id,
            attempts, tried, submitted, polls, result, first_result, not_ready>>

\* the URIs of the concurrent calls: plain http, default port
OpUris == {u \in Uris : u.scheme = "http" /\ u.host # "none" /\ u.port = NoPort}

\* HttpConnector::call for operation i: the future copies the connector's settings
OpCall(i, u) ==
    /\ ops[i].state.tag = "None"
    /\ ops' = [ops EXCEPT ![i] = [@ EXCEPT !.uri = u,
                                            !.state = call(connector, u).state,
                                            !.keep_alive_timeout =
                                                call(connector, u).keep_alive_timeout]]
    /\ UNCHANGED <<connector, single>>

\* one call of HttpConnecting::poll on the future of operation i, which is
\* polled until it completes
OpPoll(i) ==
    /\ ops[i].state.tag # "None"
    /\ ops[i].first_result.tag = "None"
    /\ \E accept \in (IF ops[i].state.tag = "Lazy" THEN BOOLEAN ELSE {TRUE}),
          lit_out \in (IF ops[i].state.tag = "Lazy" THEN Outcomes ELSE {"ok"}),
          ka_ok \in (IF ops[i].keep_alive_timeout THEN BOOLEAN ELSE {TRUE}) :
         \E r \in {HttpConnectingPoll(ops[i].state, ops[i].keep_alive_timeout,
                                      ops[i].work, ops[i].resolved, ops[i].outcome,
                                      ops[i].next_id, accept, lit_out, ka_ok)} :
            ops' = [ops EXCEPT ![i] =
                      [@ EXCEPT !.state = r.state,
                                !.work = r.work,
                                !.outcome = r.outcome,
                                !.next_id = @ + Cardinality(r.made),
                                !.attempts = @ \o r.tried,
                                !.result = r.res,
                                !.first_result =
                                    IF @.tag = "None" /\ r.res.tag # "NotReady"
                                    THEN r.res ELSE @]]
    /\ UNCHANGED <<connector, single>>

\* dns::Work::poll of operation i on a pool thread: at most one address
OpWorkOk(i, fams, outs) ==
    /\ ops[i].work.st = "queued"
    /\ ops' = [ops EXCEPT ![i] =
                 [@ EXCEPT !.work.st = "ok",
                           !.resolved = [k \in DOMAIN fams |->
                                           SocketAddr(fams[k], IpName[k], ops[i].work.port)],
                           !.outcome = outs]]
    /\ UNCHANGED <<connector, single>>

\* dns::Work::poll of operation i on a pool thread: to_socket_addrs fails
OpWorkErr(i) ==
    /\ ops[i].work.st = "queued"
    /\ ops' = [ops EXCEPT ![i] = [@ EXCEPT !.work.st = "err"]]
    /\ UNCHANGED <<connector, single>>

\* the reactor learns the outcome of the TCP connect of operation i
OpConnectDone(i) ==
    /\ ops[i].state.tag = "Connecting"
    /\ ops[i].state.current.some
    /\ ops[i].state.current.st = "pending"
    /\ ops' = [ops EXCEPT ![i] =
                 [@ EXCEPT !.state.current.st =
                     IF ops[i].outcome[ops[i].state.current.addr] = "ok"
                     THEN "ok" ELSE "failed"]]
    /\ UNCHANGED <<connector, single>>

NextConcurrent ==
    \/ \E d \in BOOLEAN : SetKeepalive(d)
    \/ \E a \in LocalAddrs : SetLocalAddress(a)
    \/ \E i \in OpIds, u \in OpUris : OpCall(i, u)
    \/ \E i \in OpIds : OpPoll(i)
    \/ \E i \in OpIds : \E n \in {0, 1} :
          \E fams \in [1..n -> Families], outs \in [1..n -> Outcomes] : OpWorkOk(i, fams, outs)
    \/ \E i \in OpIds : OpWorkErr(i)
    \/ \E i \in OpIds : OpConnectDone(i)

ConcurrentSpec == Init /\ [][NextConcurrent]_vars

\* the candidates of operation i come from its own URI: its own literal host,
\* or the addresses its own resolution produced, with its own port
OpOwnTarget(i) ==
    ops[i].state.tag = "Connecting" =>
        /\ \A k \in 1..Len(ops[i].state.addrs) : ops[i].state.addrs[k].port = DefaultHttpPort
        /\ ops[i].state.addrs = IF try_parse(ops[i].uri.host, DefaultHttpPort).some
                                THEN try_parse(ops[i].uri.host, DefaultHttpPort).addrs
                                ELSE ops[i].resolved

\* candidate c of operation i is eligible and connects, the eligible ones before it do not
OpWinner(i, c) ==
    /\ c \in 1..Len(ops[i].state.addrs)
    /\ ops[i].state.local_address \in {"none", ops[i].state.addrs[c].fam}
    /\ ops[i].outcome[c] = "ok"
    /\ \A j \in 1..(c - 1) :
          ops[i].state.local_address \in {"none", ops[i].state.addrs[j].fam}
              => ops[i].outcome[j] # "ok"

\* C12: whatever the other operation of the connector does, the candidates of
\* an operation are those of its own URI, and an operation that has completed
\* with a candidate that connects yielded the socket connected to that
\* candidate (or failed on set_keepalive)
C12_OperationsIndependent ==
    \A i \in OpIds :
        /\ OpOwnTarget(i)
        /\ (ops[i].first_result.tag # "None" /\ ops[i].state.tag = "Connecting") =>
              \A c \in 1..Len(ops[i].state.addrs) : OpWinner(i, c) =>
                  \/ ops[i].first_result.tag = "Ready" /\ ops[i].first_result.sock = c
                  \/ ops[i].first_result = Err(IoErr("keepalive", c))

====
